---- MODULE Spec2Model ----
(***************************************************************************)
(* Model of backend/audio-sep/gradio_app.py: separate_with_progress, the   *)
(* generator that runs separator.separate in a background thread, relays   *)
(* the log records of the shared separator.logger through a per-call       *)
(* queue, and yields (logs_text, files_or_None) pairs.                     *)
(*                                                                         *)
(* A Python str is a sequence of tokens (TLA+ strings); a Python list is a *)
(* sequence; None is <<>> and a present value x is <<x>>.                  *)
(***************************************************************************)
EXTENDS Integers, Sequences, FiniteSets, TLC

\* Bounds of the model.
MaxEvents == 2          \* log records separator.separate emits, all calls together
MaxFiles == 2           \* length of the list separator.separate returns

\* The calls of separate_with_progress that may overlap in time.
Jobs == {1, 2}

None == <<>>
Some(x) == <<x>>

(***************************************************************************)
(* Strings and paths                                                       *)
(***************************************************************************)
NL == "\n"
SENTINEL == <<"__SEPARATION_DONE__">>

\* pathlib: a path is an anchor flag and its parts.
Path(abs, parts) == [abs |-> abs, parts |-> parts]
CWD == Path(TRUE, <<"srv">>)
WORKSPACE_DIR == Path(TRUE, <<"app", "audio-sep">>)

\* PurePath.__truediv__: an absolute right operand replaces the left one.
PathJoin(base, other) ==
    IF other.abs THEN other
    ELSE Path(base.abs, base.parts \o other.parts)

BASE_OUTPUT_DIR == PathJoin(WORKSPACE_DIR, Path(FALSE, <<"output">>))

\* Path.absolute(): prefixes the working directory unless already anchored.
Absolute(p) == IF p.abs THEN p ELSE PathJoin(CWD, p)

\* Path(fname) of a file name returned by the Processor.
PathOf(fname) == Path(FALSE, <<fname>>)

\* Changed: the file name is not joined to BASE_OUTPUT_DIR.
FilePathsCwd(files) ==
    [i \in 1..Len(files) |-> Absolute(PathOf(files[i]))]

\* [str((BASE_OUTPUT_DIR / fname).absolute()) for fname in files]
FilePaths(files) ==
    [i \in 1..Len(files) |-> Absolute(PathJoin(BASE_OUTPUT_DIR, PathOf(files[i])))]

\* Changed: "".join(logs)
RECURSIVE JoinNoNewline(_)
JoinNoNewline(lines) ==
    IF Len(lines) = 0 THEN <<>> ELSE lines[1] \o JoinNoNewline(Tail(lines))

\* Changed: the newest line comes first.
RECURSIVE JoinNewestFirst(_)
JoinNewestFirst(lines) ==
    IF Len(lines) = 0 THEN <<>>
    ELSE IF Len(lines) = 1 THEN lines[1]
    ELSE JoinNewestFirst(Tail(lines)) \o <<NL>> \o lines[1]

\* "\n".join(logs)
RECURSIVE Join(_)
Join(lines) ==
    IF Len(lines) = 0 THEN <<>>
    ELSE IF Len(lines) = 1 THEN lines[1]
    ELSE lines[1] \o <<NL>> \o Join(Tail(lines))

\* f"\nERROR: {result['error']}"
ErrorSuffix(m) == <<NL, "ERROR: ", m>>

(***************************************************************************)
(* The log records and the relay                                           *)
(***************************************************************************)
\* The k-th record the Processor logs while running for job j; wellformed is
\* whether msg % args can be formatted.
Record(j, k, wellformed) ==
    [levelname |-> "INFO",
     message |-> "job " \o ToString(j) \o " event " \o ToString(k),
     wellformed |-> wellformed]

\* logging.Formatter("%(asctime)s - %(levelname)s - %(message)s")
Format(record) == <<"HH:MM:SS", " - ", record.levelname, " - ", record.message>>

\* What the Processor may return (a list of output file names) or raise
\* (an Exception whose str() is one of Messages).
FileName(i) == "stem" \o ToString(i) \o ".wav"
FileLists == {[i \in 1..n |-> FileName(i)] : n \in 0..MaxFiles}
Messages == {"", "disk full"}

\* result.get("error"): truthiness of the error field.
Truthy(opt) == opt /= None /\ opt[1] /= ""

\* result.get("files") or []
FilesOrEmpty(opt) == IF opt = None \/ opt[1] = <<>> THEN <<>> ELSE opt[1]

\* Changed: no line is taken for the sentinel.
IsSentinelNever(line) == FALSE

\* line == "__SEPARATION_DONE__"
IsSentinel(line) == line = SENTINEL

VARIABLES
    handlers,   \* separator.logger.handlers: the jobs whose QueueHandler is attached
    log_q,      \* log_q of each job: the queued strings, oldest first
    result,     \* result of each job: [files, error]
    wpc,        \* position of each job's worker thread
    emitted,    \* the records the Processor has logged for each job, in order
    cpc,        \* position of each job's generator
    logs,       \* logs of each job
    yielded,    \* the pairs each generator has yielded so far
    enq,        \* every string ever put on each log_q, in order of the puts
    idle        \* number of queue.Empty timeouts taken after the thread died

vars == <<handlers, log_q, result, wpc, emitted, cpc, logs, yielded, enq, idle>>

RECURSIVE TotalLen(_, _)
TotalLen(f, S) ==
    IF S = {} THEN 0
    ELSE LET x == CHOOSE x \in S : TRUE IN Len(f[x]) + TotalLen(f, S \ {x})

\* Number of records logged so far by all calls.
Emitted == TotalLen(emitted, Jobs)

\* Changed: the thread is always reported alive.
IsAliveAlways(j) == TRUE

\* thread.is_alive()
IsAlive(j) == wpc[j] \in {"run", "finally"}

Init ==
    /\ handlers = {}
    /\ log_q = [j \in Jobs |-> <<>>]
    /\ result = [j \in Jobs |-> [files |-> None, error |-> None]]
    /\ wpc = [j \in Jobs |-> "unstarted"]
    /\ emitted = [j \in Jobs |-> <<>>]
    /\ cpc = [j \in Jobs |-> "new"]
    /\ logs = [j \in Jobs |-> <<>>]
    /\ yielded = [j \in Jobs |-> <<>>]
    /\ enq = [j \in Jobs |-> <<>>]
    /\ idle = [j \in Jobs |-> 0]

(***************************************************************************)
(* The generator up to the first poll (lines 46-91)                        *)
(***************************************************************************)
\* Changed: the path is tested after the handler was attached.
StartNotFoundLate(j) ==
    /\ cpc[j] = "new"
    /\ \A i \in Jobs : i < j => cpc[i] /= "new"
    /\ handlers' = handlers \cup {j}
    /\ cpc' = [cpc EXCEPT ![j] = "raised"]
    /\ UNCHANGED <<log_q, result, wpc, emitted, logs, yielded, enq, idle>>

\* The first next() on a path that is no file: FileNotFoundError.
StartNotFound(j) ==
    /\ cpc[j] = "new"
    /\ \A i \in Jobs : i < j => cpc[i] /= "new"
    /\ cpc' = [cpc EXCEPT ![j] = "raised"]
    /\ UNCHANGED <<handlers, log_q, result, wpc, emitted, logs, yielded, enq, idle>>

\* The first next() on an existing file: queue, handler, result, thread.
\* Calls are numbered in the order of their first next().
Start(j) ==
    /\ cpc[j] = "new"
    /\ \A i \in Jobs : i < j => cpc[i] /= "new"
    /\ log_q' = [log_q EXCEPT ![j] = <<>>]
    /\ handlers' = handlers \cup {j}
    /\ result' = [result EXCEPT ![j] = [files |-> None, error |-> None]]
    /\ wpc' = [wpc EXCEPT ![j] = "run"]
    /\ logs' = [logs EXCEPT ![j] = <<>>]
    /\ cpc' = [cpc EXCEPT ![j] = "poll"]
    /\ UNCHANGED <<emitted, yielded, enq, idle>>

(***************************************************************************)
(* The worker thread (lines 78-86) and the relay (lines 63-68)             *)
(***************************************************************************)
\* Changed: a LifoQueue.
PutLifo(q, item) == <<item>> \o q

\* queue.Queue.put: first in, first out.
Put(q, item) == Append(q, item)

\* Changed: the handler filters the record out and puts nothing.
EmitToFiltered(q, record) == q

\* Changed: a record that cannot be formatted is queued by its raw message.
EmitToRaw(q, record) ==
    IF record.wellformed THEN Put(q, Format(record)) ELSE Put(q, <<record.message>>)

\* QueueHandler.emit on the queue q: a formatting failure is swallowed.
EmitTo(q, record) == IF record.wellformed THEN Put(q, Format(record)) ELSE q

\* separator.separate logs one record: the shared logger calls every handler
\* attached at that moment.
Emit(j) ==
    /\ wpc[j] = "run"
    /\ Emitted < MaxEvents
    /\ \E wellformed \in BOOLEAN :
         LET record == Record(j, Len(emitted[j]) + 1, wellformed) IN
         /\ log_q' = [h \in Jobs |->
                        IF h \in handlers THEN EmitTo(log_q[h], record) ELSE log_q[h]]
         /\ enq' = [h \in Jobs |->
                        IF h \in handlers /\ record.wellformed
                        THEN Append(enq[h], Format(record)) ELSE enq[h]]
         /\ emitted' = [emitted EXCEPT ![j] = Append(@, record)]
    /\ UNCHANGED <<handlers, result, wpc, cpc, logs, yielded, idle>>

\* separator.separate returns: result["files"] = files
WorkerReturn(j) ==
    /\ wpc[j] = "run"
    /\ \E files \in FileLists :
         result' = [result EXCEPT ![j].files = Some(files)]
    /\ wpc' = [wpc EXCEPT ![j] = "finally"]
    /\ UNCHANGED <<handlers, log_q, emitted, cpc, logs, yielded, enq, idle>>

\* Changed: the except clause also records an empty list of files.
WorkerRaiseBoth(j) ==
    /\ wpc[j] = "run"
    /\ \E m \in Messages :
         result' = [result EXCEPT ![j] = [files |-> Some(<<>>), error |-> Some(m)]]
    /\ wpc' = [wpc EXCEPT ![j] = "finally"]
    /\ UNCHANGED <<handlers, log_q, emitted, cpc, logs, yielded, enq, idle>>

\* Changed: the except clause records nothing.
WorkerRaiseSwallowed(j) ==
    /\ wpc[j] = "run"
    /\ wpc' = [wpc EXCEPT ![j] = "finally"]
    /\ UNCHANGED <<handlers, log_q, result, emitted, cpc, logs, yielded, enq, idle>>

\* separator.separate raises Exception(m): result["error"] = str(e)
WorkerRaise(j) ==
    /\ wpc[j] = "run"
    /\ \E m \in Messages :
         result' = [result EXCEPT ![j].error = Some(m)]
    /\ wpc' = [wpc EXCEPT ![j] = "finally"]
    /\ UNCHANGED <<handlers, log_q, emitted, cpc, logs, yielded, enq, idle>>

\* Changed: the sentinel is put only after a success.
WorkerSignalOnSuccess(j) ==
    /\ wpc[j] = "finally"
    /\ log_q' = [log_q EXCEPT ![j] = IF result[j].files /= None THEN Put(@, SENTINEL) ELSE @]
    /\ enq' = [enq EXCEPT ![j] = IF result[j].files /= None THEN Append(@, SENTINEL) ELSE @]
    /\ wpc' = [wpc EXCEPT ![j] = "dead"]
    /\ UNCHANGED <<handlers, result, emitted, cpc, logs, yielded, idle>>

\* finally: log_q.put("__SEPARATION_DONE__"), the last statement of the thread.
\* The thread's end is taken together with the put: is_alive() is read only
\* at line 99, after a get timed out, which no get does while the sentinel is
\* queued.
WorkerSignal(j) ==
    /\ wpc[j] = "finally"
    /\ log_q' = [log_q EXCEPT ![j] = Put(@, SENTINEL)]
    /\ enq' = [enq EXCEPT ![j] = Append(@, SENTINEL)]
    /\ wpc' = [wpc EXCEPT ![j] = "dead"]
    /\ UNCHANGED <<handlers, result, emitted, cpc, logs, yielded, idle>>

(***************************************************************************)
(* The poll loop (lines 94-107)                                            *)
(***************************************************************************)
\* log_q.get(timeout=0.2) returns a line: the sentinel breaks, any other line
\* is appended and yielded.
PollGet(j) ==
    /\ cpc[j] = "poll"
    /\ log_q[j] /= <<>>
    /\ LET line == Head(log_q[j]) IN
         /\ log_q' = [log_q EXCEPT ![j] = Tail(@)]
         /\ IF IsSentinel(line)
            THEN /\ cpc' = [cpc EXCEPT ![j] = "drain"]
                 /\ UNCHANGED <<logs, yielded>>
            ELSE /\ logs' = [logs EXCEPT ![j] = Append(@, line)]
                 /\ yielded' = [yielded EXCEPT ![j] =
                        Append(@, [logs |-> Join(logs'[j]), files |-> None])]
                 /\ cpc' = [cpc EXCEPT ![j] = "yield"]
    /\ UNCHANGED <<handlers, result, wpc, emitted, enq, idle>>

\* log_q.get(timeout=0.2) raises queue.Empty, then
\* if not thread.is_alive() and log_q.empty(): break; else continue
PollTimeout(j) ==
    /\ cpc[j] = "poll"
    /\ log_q[j] = <<>>
    /\ cpc' = [cpc EXCEPT ![j] = IF ~IsAlive(j) /\ log_q[j] = <<>> THEN "drain" ELSE "poll"]
    /\ idle' = [idle EXCEPT ![j] = IF IsAlive(j) THEN @ ELSE @ + 1]
    /\ UNCHANGED <<handlers, log_q, result, wpc, emitted, logs, yielded, enq>>

\* The caller asks for the next pair: the generator resumes after its yield.
Resume(j) ==
    /\ cpc[j] = "yield"
    /\ cpc' = [cpc EXCEPT ![j] = "poll"]
    /\ UNCHANGED <<handlers, log_q, result, wpc, emitted, logs, yielded, enq, idle>>

\* The caller stops iterating: GeneratorExit is raised at the yield and leaves
\* the function (no try/finally surrounds the yields).
Close(j) ==
    /\ cpc[j] = "yield"
    /\ cpc' = [cpc EXCEPT ![j] = "closed"]
    /\ UNCHANGED <<handlers, log_q, result, wpc, emitted, logs, yielded, enq, idle>>

(***************************************************************************)
(* Drain and final pair (lines 109-128)                                    *)
(***************************************************************************)
\* Changed: the drain loop throws away what it takes.
DrainGetDiscard(j) ==
    /\ cpc[j] = "drain"
    /\ log_q[j] /= <<>>
    /\ log_q' = [log_q EXCEPT ![j] = Tail(@)]
    /\ UNCHANGED <<handlers, result, wpc, emitted, cpc, logs, yielded, enq, idle>>

\* One iteration of: while not log_q.empty(): line = log_q.get() ...
DrainGet(j) ==
    /\ cpc[j] = "drain"
    /\ log_q[j] /= <<>>
    /\ LET line == Head(log_q[j]) IN
         /\ log_q' = [log_q EXCEPT ![j] = Tail(@)]
         /\ logs' = [logs EXCEPT ![j] = IF IsSentinel(line) THEN @ ELSE Append(@, line)]
    /\ UNCHANGED <<handlers, result, wpc, emitted, cpc, yielded, enq, idle>>

\* Changed: the error is not appended to the text.
FinalPairNoSuffix(res, lines) ==
    IF Truthy(res.error)
    THEN [logs |-> Join(lines), files |-> None]
    ELSE [logs |-> Join(lines), files |-> Some(FilePaths(FilesOrEmpty(res.files)))]

\* The final pair of lines 118-128 for the result read.
FinalPair(res, lines) ==
    IF Truthy(res.error)
    THEN [logs |-> Join(lines) \o ErrorSuffix(res.error[1]), files |-> None]
    ELSE [logs |-> Join(lines), files |-> Some(FilePaths(FilesOrEmpty(res.files)))]

\* log_q.empty() holds and the drain loop ends: removeHandler, the final
\* yield, and the return that follows it.
Finalize(j) ==
    /\ cpc[j] = "drain"
    /\ log_q[j] = <<>>
    /\ handlers' = handlers \ {j}
    /\ yielded' = [yielded EXCEPT ![j] = Append(@, FinalPair(result[j], logs[j]))]
    /\ cpc' = [cpc EXCEPT ![j] = "done"]
    /\ UNCHANGED <<log_q, result, wpc, emitted, logs, enq, idle>>

Worker(j) ==
    \/ Emit(j)
    \/ WorkerReturn(j)
    \/ WorkerRaise(j)
    \/ WorkerSignal(j)

Iterate(j) ==
    \/ Start(j)
    \/ PollGet(j)
    \/ PollTimeout(j)
    \/ Resume(j)
    \/ DrainGet(j)
    \/ Finalize(j)

\* The caller keeps iterating every stream it started.
NextIter == \E j \in Jobs : StartNotFound(j) \/ Iterate(j) \/ Worker(j)

Next == NextIter \/ \E j \in Jobs : Close(j)

Spec == Init /\ [][Next]_vars

\* The caller keeps asking every stream for its next pair.
LiveSpec ==
    /\ Init
    /\ [][NextIter]_vars
    /\ \A j \in Jobs : WF_vars(Iterate(j))

\* finally: the put of line 86 raises (nothing catches an exception inside
\* the finally clause): the thread ends and no sentinel was queued.
WorkerSignalLost(j) ==
    /\ wpc[j] = "finally"
    /\ wpc' = [wpc EXCEPT ![j] = "dead"]
    /\ UNCHANGED <<handlers, log_q, result, emitted, cpc, logs, yielded, enq, idle>>

NextLost ==
    \E j \in Jobs :
        \/ StartNotFound(j)
        \/ Iterate(j)
        \/ Emit(j)
        \/ WorkerReturn(j)
        \/ WorkerRaise(j)
        \/ WorkerSignalLost(j)

\* The program whose sentinel puts all fail, under a caller that keeps asking
\* every stream for its next pair.
LostSpec ==
    /\ Init
    /\ [][NextLost]_vars
    /\ \A j \in Jobs : WF_vars(Iterate(j))

(***************************************************************************)
(* Vocabulary of the properties                                            *)
(***************************************************************************)
IsPrefix(s, t) == Len(s) <= Len(t) /\ SubSeq(t, 1, Len(s)) = s
IsSuffix(s, t) == Len(s) <= Len(t) /\ SubSeq(t, Len(t) - Len(s) + 1, Len(t)) = s

\* text.split("\n")
RECURSIVE Lines(_)
Lines(text) ==
    IF \A i \in 1..Len(text) : text[i] /= NL THEN <<text>>
    ELSE LET i == CHOOSE i \in 1..Len(text) :
                    text[i] = NL /\ \A k \in 1..(i - 1) : text[k] /= NL
         IN <<SubSeq(text, 1, i - 1)>> \o Lines(SubSeq(text, i + 1, Len(text)))

\* Number of positions of seq holding x.
Count(x, seq) == Cardinality({i \in 1..Len(seq) : seq[i] = x})

HasErrorSuffix(text) == Len(text) >= 3 /\ SubSeq(text, Len(text) - 2, Len(text) - 1) = <<NL, "ERROR: ">>
IsFinalPair(pair) == pair.files /= None \/ HasErrorSuffix(pair.logs)
Last(seq) == seq[Len(seq)]

\* The generator ran to its end.
Done(j) == cpc[j] = "done"
\* The worker recorded a failure / a success.
Failed(j) == result[j].error /= None
Succeeded(j) == result[j].files /= None
Pending(j) == result[j].files = None /\ result[j].error = None

(***************************************************************************)
(* C1: the pairs a call yields are intermediate pairs (files None, no      *)
(* error suffix) until the stream ends; a stream that ran to its end has   *)
(* yielded at least one pair, its last pair is the only final pair (files  *)
(* present or an error suffix), and nothing follows it.                    *)
(***************************************************************************)
C1_OneFinalPair ==
    \A j \in Jobs :
        LET y == yielded[j] IN
        /\ \A i \in 1..(Len(y) - 1) : ~IsFinalPair(y[i])
        /\ Done(j) => Len(y) >= 1 /\ IsFinalPair(Last(y))
        /\ ~Done(j) => \A i \in 1..Len(y) : ~IsFinalPair(y[i])

C1_Witness ==
    \E j \in Jobs :
        /\ Done(j) /\ Len(yielded[j]) = 3
        /\ \E i \in Jobs : Done(i) /\ HasErrorSuffix(Last(yielded[i]).logs)

(***************************************************************************)
(* C2: a call whose Processor raised with message m ends with one final    *)
(* pair whose files are absent or empty and whose text ends with           *)
(* "ERROR: m"; it is never reported as a success (files present).          *)
(***************************************************************************)
C2_FailureReported ==
    \A j \in Jobs :
        Done(j) /\ Failed(j) =>
            LET last == Last(yielded[j]) IN
            /\ last.files = None \/ last.files = Some(<<>>)
            /\ IsSuffix(<<"ERROR: ", result[j].error[1]>>, last.logs)

(***************************************************************************)
(* C3: a call whose Processor returned a list ends with as many paths as   *)
(* the list has names, in the order of the names, each absolute and under  *)
(* BASE_OUTPUT_DIR.                                                        *)
(***************************************************************************)
C3_ArtifactPaths ==
    \A j \in Jobs :
        Done(j) /\ Succeeded(j) =>
            LET names == result[j].files[1]
                last == Last(yielded[j])
            IN /\ last.files /= None
               /\ Len(last.files[1]) = Len(names)
               /\ \A i \in 1..Len(names) :
                    LET p == last.files[1][i] IN
                    /\ p.abs
                    /\ IsPrefix(BASE_OUTPUT_DIR.parts, p.parts)
                    /\ Last(p.parts) = names[i]

C3_Witness ==
    \E j \in Jobs : Done(j) /\ Succeeded(j) /\ Len(Last(yielded[j]).files[1]) = MaxFiles

(***************************************************************************)
(* C4: no line of a yielded text, and no element of logs, is the sentinel. *)
(* Every pair is the last pair of yielded in the state its yield produces, *)
(* so the text examined is the last one.                                   *)
(***************************************************************************)
C4_SentinelHidden ==
    \A j \in Jobs :
        /\ \A i \in 1..Len(logs[j]) : logs[j][i] /= SENTINEL
        /\ yielded[j] /= <<>> => Count(SENTINEL, Lines(Last(yielded[j]).logs)) = 0

\* The sentinel was taken off the queue in the poll loop and the stream ended.
C4_Witness ==
    \E j \in Jobs : Done(j) /\ Count(SENTINEL, enq[j]) = 1 /\ Len(yielded[j]) >= 2

(***************************************************************************)
(* C5: two strings put on one queue appear, in a yielded text holding both *)
(* as lines, in the order of the puts (enq only grows at its end, so the   *)
(* order of two puts is the same in every later state; the text examined   *)
(* is the last one yielded).                                               *)
(***************************************************************************)
C5_FifoOrder ==
    \A j \in Jobs :
        yielded[j] /= <<>> =>
            LET L == Lines(Last(yielded[j]).logs)
                At(x) == {p \in 1..Len(enq[j]) : enq[j][p] = x}
            IN \A a, b \in 1..Len(L) :
                 a < b => \A p \in At(L[a]) : \A q \in At(L[b]) : p < q

\* A final text holding a line taken in the poll loop and a line drained.
C5_Witness ==
    \E j \in Jobs :
        /\ Done(j) /\ Len(logs[j]) = 2
        /\ Len(yielded[j]) = 2

(***************************************************************************)
(* C6: every record the Processor logged during a call is, once the stream *)
(* has ended, exactly one line of the call's final text.                   *)
(***************************************************************************)
C6_EveryRecordOnce ==
    \A j \in Jobs :
        Done(j) =>
            \A k \in 1..Len(emitted[j]) :
                Count(Format(emitted[j][k]), Lines(Last(yielded[j]).logs)) = 1

\* C6 as amended: every record the relay could format is exactly one line of
\* the final text; a record whose formatting failed is no line of it.
C6_EveryFormattedRecordOnce ==
    \A j \in Jobs :
        Done(j) =>
            \A k \in 1..Len(emitted[j]) :
                Count(Format(emitted[j][k]), Lines(Last(yielded[j]).logs))
                    = IF emitted[j][k].wellformed THEN 1 ELSE 0

C6_Witness ==
    \E j \in Jobs :
        /\ Done(j) /\ Len(emitted[j]) = MaxEvents
        /\ \A k \in 1..Len(emitted[j]) : emitted[j][k].wellformed

(***************************************************************************)
(* C7: once the thread has ended no poll of the queue times out, so the    *)
(* poll loop ends after at most as many iterations as strings are queued,  *)
(* and, the caller iterating on, the stream ends with its final pair, also *)
(* when the Processor logged nothing.  A thread that ended stays ended, so *)
(* "thread ended leads to stream ended" is stated as: again and again the  *)
(* thread has not ended or the stream has.                                 *)
(***************************************************************************)
C7_PollLoopTerminates ==
    /\ [](\A j \in Jobs : idle[j] = 0 /\ (Done(j) => IsFinalPair(Last(yielded[j]))))
    /\ \A j \in Jobs : []<>(wpc[j] /= "dead" \/ Done(j))

\* A stream that ended with one pair after a Processor that logged nothing.
C7_Witness ==
    \E j \in Jobs :
        Done(j) /\ wpc[j] = "dead" /\ emitted[j] = <<>> /\ Len(yielded[j]) = 1

(***************************************************************************)
(* C8: no record logged by the Processor during one call is a line of      *)
(* another call's logs.                                                    *)
(***************************************************************************)
C8_NoCrossJobLines ==
    \A j \in Jobs : \A i \in Jobs \ {j} :
        \A k \in 1..Len(emitted[i]) : Count(Format(emitted[i][k]), logs[j]) = 0

C10_HandlerDetached ==
    \A j \in Jobs : cpc[j] \in {"done", "closed", "raised"} => j \notin handlers

(***************************************************************************)
(* C11: a call whose path is no file raises before anything else happens:  *)
(* no thread was started, nothing was ever put on a queue of the call, no  *)
(* handler of the call is attached, no result was set and no pair was      *)
(* yielded.                                                                *)
(***************************************************************************)
C11_NotFoundBeforeAnyWork ==
    \A j \in Jobs :
        cpc[j] = "raised" =>
            /\ wpc[j] = "unstarted" /\ emitted[j] = <<>>
            /\ log_q[j] = <<>> /\ enq[j] = <<>>
            /\ j \notin handlers
            /\ Pending(j)
            /\ yielded[j] = <<>>

\* The call raised while another call's Processor logged a record.
C11_Witness ==
    \E j \in Jobs : cpc[j] = "raised" /\ \E i \in Jobs \ {j} : emitted[i] /= <<>>

LoggedLines(j) ==
    LET ok == SelectSeq(emitted[j], LAMBDA r : r.wellformed)
    IN [k \in 1..Len(ok) |-> Format(ok[k])]

Alone(j) == \A i \in Jobs \ {j} : wpc[i] = "unstarted"

C13_OnePairPerLine ==
    \A j \in Jobs :
        Done(j) /\ Alone(j) =>
            LET n == Len(LoggedLines(j))
                y == yielded[j]
            IN /\ Len(y) = n + 1
               /\ \A k \in 1..n :
                    /\ y[k].files = None
                    /\ Lines(y[k].logs) = SubSeq(LoggedLines(j), 1, k)
               /\ IsFinalPair(y[n + 1])

\* As many logged lines as the bound allows, then a list of one file.
C13_Witness ==
    \E j \in Jobs :
        /\ Done(j) /\ Alone(j) /\ Len(LoggedLines(j)) = MaxEvents
        /\ Len(yielded[j]) = MaxEvents + 1
        /\ Last(yielded[j]).files = Some(FilePaths(<<FileName(1)>>))

(***************************************************************************)
(* C14: when the worker thread has ended and no sentinel is ever queued,   *)
(* a stream the caller keeps iterating always reaches its end: the poll    *)
(* loop is left by the test of line 99, and the stream that ended has its  *)
(* queue empty, its handler removed and a final pair as its last pair.     *)
(***************************************************************************)
C14_LostSentinelTerminates ==
    /\ [](\A j \in Jobs :
            /\ Count(SENTINEL, enq[j]) = 0
            /\ cpc[j] \in {"drain", "done"} => wpc[j] = "dead" /\ idle[j] = 1
            /\ Done(j) =>
                    /\ log_q[j] = <<>>
                    /\ j \notin handlers
                    /\ IsFinalPair(Last(yielded[j])))
    /\ \A j \in Jobs : []<>(wpc[j] /= "dead" \/ Done(j))

\* Both streams ended without a sentinel, one of them after yielding a line.
C14_Witness ==
    /\ \A j \in Jobs : Done(j) /\ Count(SENTINEL, enq[j]) = 0 /\ idle[j] = 1
    /\ \E j \in Jobs : Len(yielded[j]) >= 2

\* The strings of seq other than the sentinel, in order.
NonSentinel(seq) == SelectSeq(seq, LAMBDA x : x /= SENTINEL)

(***************************************************************************)
(* C15: from the end of the poll loop on, every string put on the queue    *)
(* other than the sentinel is in logs or still queued, in the order of the *)
(* puts; when the stream has ended the queue is empty, logs holds every    *)
(* such string in that order (those put after the sentinel included), and  *)
(* the final text starts with the lines of logs.                           *)
(***************************************************************************)
C15_DrainKeepsBuffered ==
    \A j \in Jobs :
        /\ cpc[j] \in {"drain", "done"} =>
                logs[j] \o NonSentinel(log_q[j]) = NonSentinel(enq[j])
        /\ Done(j) =>
                /\ log_q[j] = <<>>
                /\ IsPrefix(Join(logs[j]), Last(yielded[j]).logs)

\* A stream that ended after draining a line put after its sentinel.
C15_Witness ==
    \E j \in Jobs :
        /\ Done(j)
        /\ Len(logs[j]) > Len(yielded[j]) - 1
        /\ \E p, q \in 1..Len(enq[j]) : p < q /\ enq[j][p] = SENTINEL /\ enq[j][q] /= SENTINEL

(***************************************************************************)
(* C16: a step in which the Processor logs a record that cannot be         *)
(* formatted changes nothing but the count of records logged: no queue     *)
(* receives a string, the worker stays where it was with its result        *)
(* unwritten, and no generator, logs or handler changes. The worker then   *)
(* records its outcome and puts its sentinel as after any other record:    *)
(* a thread that ended has written one outcome and put one sentinel.       *)
(***************************************************************************)
C16_MalformedSwallowed ==
    /\ [](\A j \in Jobs :
            wpc[j] = "dead" => ~Pending(j) /\ Count(SENTINEL, enq[j]) = 1)
    /\ [][\A j \in Jobs :
            (/\ Len(emitted'[j]) > Len(emitted[j])
             /\ ~Last(emitted'[j]).wellformed)
            => /\ UNCHANGED <<handlers, log_q, result, wpc, cpc, logs, yielded, enq, idle>>
               /\ wpc[j] = "run" /\ Pending(j)]_vars

\* A stream that ended in success although its only record was malformed,
\* and one that ended in failure after such a record.
C16_Witness ==
    /\ \E j \in Jobs :
        /\ Done(j) /\ Succeeded(j)
        /\ Len(emitted[j]) = 1 /\ ~emitted[j][1].wellformed
        /\ Len(yielded[j]) = 1
    /\ \E j \in Jobs :
        /\ Done(j) /\ Failed(j)
        /\ \E k \in 1..Len(emitted[j]) : ~emitted[j][k].wellformed

(***************************************************************************)
(* C17: no get times out after the thread has ended (idle stays 0), since  *)
(* while a generator is in its poll loop and its thread has ended the      *)
(* sentinel is still queued; a generator past its poll loop has taken the  *)
(* one sentinel ever put on its queue, so the drain loop finds none.       *)
(***************************************************************************)
C17_DefensiveExitUnused ==
    \A j \in Jobs :
        /\ idle[j] = 0
        /\ Count(SENTINEL, enq[j]) = (IF wpc[j] = "dead" THEN 1 ELSE 0)
        /\ cpc[j] \in {"poll", "yield"} /\ wpc[j] = "dead" => Count(SENTINEL, log_q[j]) = 1
        /\ cpc[j] \in {"drain", "done"} => wpc[j] = "dead" /\ Count(SENTINEL, log_q[j]) = 0

\* A generator that left its poll loop by the sentinel and has a line to
\* drain, while the other one polls with only its sentinel queued.
C17_Witness ==
    \E j \in Jobs :
        /\ cpc[j] = "drain" /\ log_q[j] /= <<>>
        /\ Count(SENTINEL, enq[j]) = 1
        /\ \E i \in Jobs \ {j} : cpc[i] = "poll" /\ wpc[i] = "dead" /\ Len(log_q[i]) = 1

(***************************************************************************)
(* C18: the text of every pair a call yields after its first starts with   *)
(* the text of the pair before it, and what follows is nothing or whole    *)
(* lines (it starts with a newline). An intermediate pair holds one line   *)
(* more than the pair before it (the first holds one line). Every pair is  *)
(* the last pair of yielded in the state its yield produces, so the two    *)
(* last pairs are examined.                                                *)
(***************************************************************************)
C18_SnapshotsGrow ==
    \A j \in Jobs :
        LET y == yielded[j]
            n == Len(y)
        IN /\ n >= 1 /\ ~IsFinalPair(y[n]) =>
                Count(NL, y[n].logs) = (IF n = 1 THEN 0 ELSE Count(NL, y[n - 1].logs) + 1)
           /\ n >= 2 =>
                LET prev == y[n - 1].logs
                    cur == y[n].logs
                IN /\ IsPrefix(prev, cur)
                   /\ Len(cur) > Len(prev) => cur[Len(prev) + 1] = NL

\* A stream that ended in failure after two intermediate pairs.
C18_Witness ==
    \E j \in Jobs :
        /\ Done(j) /\ Len(yielded[j]) = 3
        /\ Count(NL, yielded[j][2].logs) = 1
        /\ HasErrorSuffix(yielded[j][3].logs)

====
